---- MODULE Spec2Model ----
(***************************************************************************)
(* A model of pdark.i18n (src/pdark/i18n/__init__.py): the translation     *)
(* service, its message provider (catalog), the pattern parser, the        *)
(* formatter dispatch with its built-in formatters and the locale fallback *)
(* strategy.                                                               *)
(*                                                                         *)
(* Python values are tagged records [t |-> <type name>, ...].  A Python    *)
(* str is [t |-> "str", v |-> s] where s is a sequence of symbols; a       *)
(* symbol stands for a fixed run of characters, the separator "_" and the  *)
(* braces "{" and "}" being symbols of their own, so that concatenation is *)
(* \o and rfind('_') is a search for the symbol "_".                       *)
(***************************************************************************)
EXTENDS Integers, Sequences, FiniteSets, TLC

VARIABLES
    default_locale,          \* TranslationService.default_locale / LocaleFallbackStrategy.default_locale
    missing_text_strategy,   \* MessageProvider.missing_text_strategy: "Fail" or "Log"
    pattern_cache,           \* SimpleMessageProvider.pattern_cache: locale -> (key -> MessageFormatter)
    delegates,               \* DefaultFormatterFactory.delegates: sequence of factories
    cache,                   \* DefaultFormatterFactory.cache: type name -> factory
    last,                    \* the last call made on the objects and its observed outcome
    registering              \* a register_message call in progress on another thread: its position and arguments

vars == <<default_locale, missing_text_strategy, pattern_cache, delegates, cache, last, registering>>

----------------------------------------------------------------------------
(* Bounds of the explored inputs *)

MaxLocaleLen == 3

----------------------------------------------------------------------------
(* Python values *)

None == [t |-> "none"]
Str(s) == [t |-> "str", v |-> s]
IntV(n) == [t |-> "int", v |-> n]
FloatV(n) == [t |-> "float", v |-> n]
BoolV(b) == [t |-> "bool", v |-> b]
ListV(xs) == [t |-> "list", v |-> xs]
TupleV(xs) == [t |-> "tuple", v |-> xs]
DictV(d) == [t |-> "dict", v |-> d]
DateV(d) == [t |-> "date", v |-> d]
DateTimeV(d) == [t |-> "datetime", v |-> d]

\* All sequences over alphabet of length at most n
SeqsUpTo(alphabet, n) == UNION {[1..k -> alphabet] : k \in 0..n}

----------------------------------------------------------------------------
(* LocaleFallbackStrategy *)

\* A fallback that cuts at the first separator instead of the last
find(s, ch) ==
    IF \E i \in 1..Len(s) : s[i] = ch
    THEN (CHOOSE i \in 1..Len(s) : s[i] = ch /\ \A j \in 1..(i - 1) : s[j] # ch) - 1
    ELSE -1

\* str.rfind(ch): 0-based index of the last occurrence, -1 when absent
rfind(s, ch) ==
    IF \E i \in 1..Len(s) : s[i] = ch
    THEN (CHOOSE i \in 1..Len(s) : s[i] = ch /\ \A j \in (i + 1)..Len(s) : s[j] # ch) - 1
    ELSE -1

RECURSIVE split_locale(_, _)
split_locale(result, locale) ==
    IF locale = None
    THEN result
    ELSE LET r1 == Append(result, locale)
             pos == rfind(locale.v, "_")
         IN  IF pos < 0
             THEN r1
             ELSE split_locale(r1, Str(SubSeq(locale.v, 1, pos)))

\* LocaleFallbackStrategy(dflt).apply(locale)
LocaleFallbackStrategy_apply(dflt, locale) ==
    split_locale(split_locale(<<>>, locale), dflt)

----------------------------------------------------------------------------
(* Exceptions.  kind is the Python class; what tells the raise statement;  *)
(* subject and locale are the values formatted into the message; cause is  *)
(* the chained exception (raise ... from e), None when there is none.      *)

Exc(kind, what, subject, locale, cause) ==
    [kind |-> kind, what |-> what, subject |-> subject, locale |-> locale, cause |-> cause]

----------------------------------------------------------------------------
(* Fragments, references and MessageParser *)

TextFragment(text) == [f |-> "text", text |-> text]
ArgumentFragment(ref, options) == [f |-> "arg", ref |-> ref, options |-> options]
IndexRef(index) == [r |-> "index", index |-> index]
NameRef(name) == [r |-> "name", name |-> name]
MessageFormatter(fragments) == [fragments |-> fragments]

\* A parser that never makes a by-index reference
never_int(x) == FALSE

\* isinstance(x, int): bool is a subclass of int
IsInt(x) == x.t \in {"int", "bool"}

\* MessageParser.parse0 from the i-th part of the sequence on; a dict part is
\* a record of its items
RECURSIVE parse0(_, _, _)
parse0(fragments, parts, i) ==
    IF i > Len(parts)
    THEN [ok |-> TRUE, val |-> fragments, err |-> None]
    ELSE LET part == parts[i] IN
         IF part.t = "str"
         THEN parse0(Append(fragments, TextFragment(part)), parts, i + 1)
         ELSE IF part.t = "dict"
         THEN IF "arg" \notin DOMAIN part.v
              THEN [ok |-> FALSE, val |-> None,
                    err |-> Exc("KeyError", "part['arg']", part, None, None)]
              ELSE LET arg == part.v["arg"]
                       options == [k \in (DOMAIN part.v) \ {"arg"} |-> part.v[k]]
                       ref == IF IsInt(arg) THEN IndexRef(arg) ELSE NameRef(arg)
                   IN  parse0(Append(fragments, ArgumentFragment(ref, options)), parts, i + 1)
         ELSE [ok |-> FALSE, val |-> None,
               err |-> Exc("I18nException", "Unsupported part", part, None, None)]

\* The keys of a dict as iterating it yields them; a dict of the model keeps
\* no insertion order, so the order is one fixed enumeration of the keys
KeysOf(d) ==
    LET order == CHOOSE f \in [1..Cardinality(DOMAIN d.v) -> DOMAIN d.v] :
                    {f[i] : i \in 1..Cardinality(DOMAIN d.v)} = DOMAIN d.v
    IN  [i \in 1..Cardinality(DOMAIN d.v) |-> Str(<<order[i]>>)]

\* What "for part in message" iterates over: the items of a list or tuple,
\* the characters of a str, the keys of a dict
PartsOf(message) ==
    CASE message.t \in {"list", "tuple"} -> message.v
      [] message.t = "str" -> [i \in 1..Len(message.v) |-> Str(<<message.v[i]>>)]
      [] message.t = "dict" -> KeysOf(message)

\* try: parse0(fragments, message) except Exception: raise I18nException;
\* a value that is none of these is not iterable
parse_parts(message) ==
    LET wrap(r) ==
            IF r.ok
            THEN [ok |-> TRUE, val |-> MessageFormatter(r.val), err |-> None]
            ELSE [ok |-> FALSE, val |-> None,
                  err |-> Exc("I18nException", "Error parsing", message, None, r.err)]
    IN  wrap(IF message.t \in {"list", "tuple", "str", "dict"}
             THEN parse0(<<>>, PartsOf(message), 1)
             ELSE [ok |-> FALSE, val |-> None,
                   err |-> Exc("TypeError", "not iterable", message, None, None)])

\* A parser without the literal-string case: a str pattern is iterated like
\* any other pattern
parse_without_literal_case(message) == parse_parts(message)

\* MessageParser.parse
parse(message) ==
    IF message.t = "str"
    THEN [ok |-> TRUE, val |-> MessageFormatter(<<TextFragment(message)>>), err |-> None]
    ELSE parse_parts(message)

----------------------------------------------------------------------------
(* I18NMessage *)

I18NMessage(key, locale, args, kwargs) ==
    [t |-> "msg", key |-> key, locale |-> locale, args |-> args, kwargs |-> kwargs]

\* A with_locale that keeps a preferred locale that is already set
with_locale_unless_set(m, locale) ==
    IF m.locale # None THEN m ELSE I18NMessage(m.key, locale, m.args, m.kwargs)

\* I18NMessage.with_locale
with_locale(m, locale) == I18NMessage(m.key, locale, m.args, m.kwargs)

\* I18NMessage.__eq__(self): the method takes no other operand, so the call
\* type(a).__eq__(a, b) that a == b makes raises TypeError for every a and b
I18NMessage_eq(self, other) ==
    [ok |-> FALSE, val |-> None,
     err |-> Exc("TypeError", "__eq__() takes 1 positional argument but 2 were given",
                 self, None, None)]

----------------------------------------------------------------------------
(* Outcomes.  A call that can touch the dispatch cache returns, besides its *)
(* value or its exception, the cache as the call leaves it and the log of   *)
(* the translate calls entered, in the order they were entered: for each    *)
(* its request, the locale it worked with, whether the missing-text         *)
(* strategy was applied and to which arguments, the formatter the provider  *)
(* returned, and the number of translate calls on the stack (depth); and    *)
(* the locales for which the call's lookups created a dict in the catalog   *)
(* (created).                                                               *)

Ok(val, c) ==
    [ok |-> TRUE, val |-> val, err |-> None,
     cache |-> c.cache, log |-> c.log, depth |-> c.depth, created |-> c.created]
Raise(err, c) ==
    [ok |-> FALSE, val |-> None, err |-> err,
     cache |-> c.cache, log |-> c.log, depth |-> c.depth, created |-> c.created]
Ctx(r) == [cache |-> r.cache, log |-> r.log, depth |-> r.depth, created |-> r.created]
Logged(c, event) ==
    [cache |-> c.cache, log |-> Append(c.log, event), depth |-> c.depth, created |-> c.created]

\* The context after lookups that created dicts for the locales in the catalog
Created(c, locales) == [c EXCEPT !.created = @ \cup locales]

\* The context of a caller that has no translate call on its stack
Caller(factory_cache) == [cache |-> factory_cache, log |-> <<>>, depth |-> 0, created |-> {}]

\* A call of translate made in context c: one more translate call is on the stack
Entered(c) == [c EXCEPT !.depth = @ + 1]

\* The outcome r of a translate call made in context c, back at the caller
Returned(r, c) == [r EXCEPT !.depth = c.depth]

\* The outcome r of a call that leaves the cache alone, made in context c
Lift(r, c) == IF r.ok THEN Ok(r.val, c) ELSE Raise(r.err, c)

\* Sequencing: an exception of the first call propagates, otherwise the
\* statements K that follow it run on its outcome
Then(r, K(_)) == IF r.ok THEN K(r) ELSE r

----------------------------------------------------------------------------
(* String operations of the formatters *)

\* The conversion specifiers the numeric format specs are written with
Directives == {"%d", "%.2f"}

\* The value of a number as Python compares and converts it; a float is kept
\* in hundredths
IntOf(inst) ==
    IF inst.t = "bool" THEN (IF inst.v THEN 1 ELSE 0)
    ELSE IF inst.t = "float" THEN inst.v \div 100
    ELSE inst.v

Hundredths(inst) == IF inst.t = "float" THEN inst.v % 100 ELSE 0

\* inst == n for a number inst and an integer n
NumEquals(inst, n) == IntOf(inst) = n /\ Hundredths(inst) = 0

\* One conversion specifier applied to a number
Converted(directive, inst) ==
    IF directive = "%d"
    THEN <<ToString(IntOf(inst))>>
    ELSE <<ToString(IntOf(inst)), ".",
           IF Hundredths(inst) < 10
           THEN "0" \o ToString(Hundredths(inst))
           ELSE ToString(Hundredths(inst))>>

\* spec % inst, for a str spec and a number inst: exactly one specifier must
\* be there to take the one argument
percent(spec, inst) ==
    LET ds == {i \in 1..Len(spec.v) : spec.v[i] \in Directives}
    IN  IF Cardinality(ds) # 1
        THEN [ok |-> FALSE, val |-> None,
              err |-> Exc("TypeError", "spec % inst", spec, None, None)]
        ELSE LET i == CHOOSE j \in ds : TRUE
             IN  [ok |-> TRUE, err |-> None,
                  val |-> Str(SubSeq(spec.v, 1, i - 1) \o Converted(spec.v[i], inst)
                              \o SubSeq(spec.v, i + 1, Len(spec.v)))]

\* joiner.join(strings), the strings from the i-th on
RECURSIVE join_from(_, _, _)
join_from(joiner, strings, i) ==
    IF i > Len(strings) THEN <<>>
    ELSE IF i = Len(strings) THEN strings[i].v
    ELSE strings[i].v \o joiner.v \o join_from(joiner, strings, i + 1)

join(joiner, strings) == Str(join_from(joiner, strings, 1))

----------------------------------------------------------------------------
(* Formatter factories *)

StringFormatterFactory == "StringFormatterFactory"
I18nMessageFormatterFactory == "I18nMessageFormatterFactory"
ListFormatterFactory == "ListFormatterFactory"
NumberFormatterFactory == "NumberFormatterFactory"
DateFormatterFactory == "DateFormatterFactory"

\* A second DateFormatterFactory(ts) object, as a second call of
\* pdark.i18n.babel.setup(ts) registers
OtherDateFormatterFactory == "DateFormatterFactory (second instance)"

\* The class of a factory object
ClassOf(delegate) ==
    IF delegate = OtherDateFormatterFactory THEN DateFormatterFactory ELSE delegate

\* DefaultFormatterFactory.__init__: the built-in delegates
BuiltinDelegates ==
    <<StringFormatterFactory, I18nMessageFormatterFactory,
      ListFormatterFactory, NumberFormatterFactory>>

\* <factory>.can_handle(inst)
can_handle(delegate, inst) ==
    CASE ClassOf(delegate) = StringFormatterFactory -> inst.t = "str"
      [] ClassOf(delegate) = I18nMessageFormatterFactory -> inst.t = "msg"
      [] ClassOf(delegate) = ListFormatterFactory -> inst.t \in {"list", "tuple"}
      [] ClassOf(delegate) = NumberFormatterFactory -> inst.t \in {"int", "bool", "float"}
      [] ClassOf(delegate) = DateFormatterFactory -> inst.t \in {"date", "datetime"}
      [] OTHER -> FALSE

\* The keyword parameters <factory>.create_formatter(locale, **options) takes
\* (for the list factory, which takes **options, every keyword given)
Keywords(delegate, options) ==
    CASE ClassOf(delegate) = ListFormatterFactory -> DOMAIN options
      [] ClassOf(delegate) = NumberFormatterFactory -> {"plural"}
      [] ClassOf(delegate) = DateFormatterFactory -> {"style", "pattern"}
      [] OTHER -> {}

\* delegate.create_formatter(locale, **options): the formatter, or the
\* TypeError of a call with an unexpected keyword argument
delegate_create_formatter(delegate, locale, options) ==
    IF ~(DOMAIN options \subseteq Keywords(delegate, options))
    THEN [ok |-> FALSE, val |-> None,
          err |-> Exc("TypeError", "unexpected keyword argument", options, None, None)]
    ELSE [ok |-> TRUE, err |-> None,
          val |-> [factory |-> delegate, locale |-> locale, options |-> options]]

\* A scan that takes the last delegate that can handle inst
LastDelegate(dels, inst) ==
    IF \E i \in 1..Len(dels) : can_handle(dels[i], inst)
    THEN CHOOSE i \in 1..Len(dels) :
            /\ can_handle(dels[i], inst)
            /\ \A j \in (i + 1)..Len(dels) : ~can_handle(dels[j], inst)
    ELSE 0

\* The index of the first delegate that can handle inst, 0 when none can
FirstDelegate(dels, inst) ==
    IF \E i \in 1..Len(dels) : can_handle(dels[i], inst)
    THEN CHOOSE i \in 1..Len(dels) :
            /\ can_handle(dels[i], inst)
            /\ \A j \in 1..(i - 1) : ~can_handle(dels[j], inst)
    ELSE 0

\* A create_formatter that creates the formatter for the service's default
\* locale instead of the locale it is given
create_formatter_at_default_locale(ts, c, locale, inst, options) ==
    LET scan(i) ==
            IF i = 0
            THEN Raise(Exc("I18nException", "No factory can handle", inst, None, None), c)
            ELSE Lift(delegate_create_formatter(ts.delegates[i], ts.default_locale, options),
                      [c EXCEPT !.cache = (inst.t :> ts.delegates[i]) @@ @])
    IN  IF inst.t \in DOMAIN c.cache
        THEN Lift(delegate_create_formatter(c.cache[inst.t], ts.default_locale, options), c)
        ELSE scan(FirstDelegate(ts.delegates, inst))

\* A create_formatter that remembers the types no factory could handle
create_formatter_caching_failure(ts, c, locale, inst, options) ==
    LET scan(i) ==
            IF i = 0
            THEN Raise(Exc("I18nException", "No factory can handle", inst, None, None),
                       [c EXCEPT !.cache = (inst.t :> "none") @@ @])
            ELSE Lift(delegate_create_formatter(ts.delegates[i], locale, options),
                      [c EXCEPT !.cache = (inst.t :> ts.delegates[i]) @@ @])
    IN  IF inst.t \in DOMAIN c.cache
        THEN IF c.cache[inst.t] = "none"
             THEN Raise(Exc("I18nException", "No factory can handle", inst, None, None), c)
             ELSE Lift(delegate_create_formatter(c.cache[inst.t], locale, options), c)
        ELSE scan(FirstDelegate(ts.delegates, inst))

\* A create_formatter that remembers, per type, the locale of the first
\* dispatch together with the factory
create_formatter_first_locale(ts, c, locale, inst, options) ==
    LET scan(i) ==
            IF i = 0
            THEN Raise(Exc("I18nException", "No factory can handle", inst, None, None), c)
            ELSE Lift(delegate_create_formatter(ts.delegates[i], locale, options),
                      [c EXCEPT !.cache =
                          (inst.t :> [delegate |-> ts.delegates[i], locale |-> locale]) @@ @])
    IN  IF inst.t \in DOMAIN c.cache
        THEN Lift(delegate_create_formatter(c.cache[inst.t].delegate,
                                            c.cache[inst.t].locale, options), c)
        ELSE scan(FirstDelegate(ts.delegates, inst))

\* DefaultFormatterFactory.create_formatter(locale, inst, options); the cache
\* is keyed by type(inst)
create_formatter(ts, c, locale, inst, options) ==
    LET scan(i) ==
            IF i = 0
            THEN Raise(Exc("I18nException", "No factory can handle", inst, None, None), c)
            ELSE Lift(delegate_create_formatter(ts.delegates[i], locale, options),
                      [c EXCEPT !.cache = (inst.t :> ts.delegates[i]) @@ @])
    IN  IF inst.t \in DOMAIN c.cache
        THEN Lift(delegate_create_formatter(c.cache[inst.t], locale, options), c)
        ELSE scan(FirstDelegate(ts.delegates, inst))

----------------------------------------------------------------------------
(* Missing-text strategies and the message provider *)

\* text_message_formatter(text): MessageFormatter.__init__ takes an iterable
\* of fragments and is given one TextFragment, which tuple() cannot iterate
text_message_formatter(text) ==
    [ok |-> FALSE, val |-> None,
     err |-> Exc("TypeError", "tuple(fragments)", text, None, None)]

\* FailOnMissingTextsStrategy.apply and LogMissingTextStrategy.apply
\* (repr(i18n_message) is kept as the message itself)
MissingTextStrategy_apply(strategy, i18n_message, locale) ==
    IF strategy = "Fail"
    THEN [ok |-> FALSE, val |-> None,
          err |-> Exc("I18nException", "Missing text", i18n_message.key, None, None)]
    ELSE text_message_formatter(i18n_message)

\* SimpleMessageProvider.lookup_single_locale
lookup_single_locale(pc, key, locale) ==
    IF locale \notin DOMAIN pc THEN None
    ELSE IF key \notin DOMAIN pc[locale] THEN None
    ELSE pc[locale][key]

\* A lookup that indexes the defaultdict, self.pattern_cache[locale], which
\* creates the dict of a locale that has none
created_by_indexing(pc, locale) == IF locale \in DOMAIN pc THEN {} ELSE {locale}

\* The locales for which lookup_single_locale creates a dict in the catalog:
\* self.pattern_cache.get(locale, None) creates none
created_by_get(pc, locale) == {}

\* SimpleMessageProvider.lookup_message: the loop over fallback_locales from
\* the i-th on; missing tells that the strategy was applied, applied_to the
\* arguments it was applied to, created the locales whose dicts the lookups
\* created
RECURSIVE lookup_from(_, _, _, _, _)
lookup_from(ts, i18n_message, locale, fallback_locales, i) ==
    LET after(created, r) == [r EXCEPT !.created = @ \cup created]
        found(formatter) ==
            IF formatter # None
            THEN [missing |-> FALSE, applied_to |-> <<>>, created |-> {},
                  out |-> [ok |-> TRUE, val |-> formatter, err |-> None]]
            ELSE lookup_from(ts, i18n_message, locale, fallback_locales, i + 1)
    IN  IF i > Len(fallback_locales)
        THEN [missing |-> TRUE, applied_to |-> <<i18n_message, locale>>, created |-> {},
              out |-> MissingTextStrategy_apply(ts.missing_text_strategy, i18n_message, locale)]
        ELSE after(created_by_get(ts.pattern_cache, fallback_locales[i]),
                   found(lookup_single_locale(ts.pattern_cache, i18n_message.key,
                                              fallback_locales[i])))

\* A lookup that searches the default locale's chain before the requested one's
lookup_message_default_first(ts, i18n_message, locale) ==
    lookup_from(ts, i18n_message, locale,
                LocaleFallbackStrategy_apply(locale, ts.default_locale), 1)

lookup_message(ts, i18n_message, locale) ==
    lookup_from(ts, i18n_message, locale,
                LocaleFallbackStrategy_apply(ts.default_locale, locale), 1)

\* SimpleMessageProvider.register_message: pattern_cache is a defaultdict, so
\* pattern_cache[locale] creates the locale's dict before the pattern is parsed
register_message(pc, key, locale, pattern) ==
    LET pc1 == IF locale \in DOMAIN pc THEN pc ELSE (locale :> <<>>) @@ pc
        store(p) ==
            IF p.ok
            THEN [ok |-> TRUE, err |-> None,
                  pattern_cache |-> [pc1 EXCEPT ![locale] = (key :> p.val) @@ @]]
            ELSE [ok |-> FALSE, err |-> p.err, pattern_cache |-> pc1]
    IN  store(parse(pattern))

\* A first statement that assigns a new dict to the locale
register_begin_with_new_dict(pc, locale) == (locale :> <<>>) @@ pc

\* The first statement of register_message, keys = self.pattern_cache[locale]:
\* the defaultdict creates the locale's dict when it has none
register_begin(pc, locale) ==
    IF locale \in DOMAIN pc THEN pc ELSE (locale :> <<>>) @@ pc

\* The assignment of register_message, keys[key] = <the parsed formatter>, one
\* store into the locale's dict
register_store(pc, key, locale, formatter) ==
    [pc EXCEPT ![locale] = (key :> formatter) @@ @]

----------------------------------------------------------------------------
(* The messages the built-in formatters look up *)

Message(key) == I18NMessage(Str(<<key>>), None, <<>>, <<>>)

empty_message == Message("pdark.i18n.list.empty")
comma_message == Message("pdark.i18n.list.comma")
and_message == Message("pdark.i18n.list.and")
or_message == Message("pdark.i18n.list.or")
int_message == Message("pdark.i18n.number.int")
float_message == Message("pdark.i18n.number.float")

----------------------------------------------------------------------------
(* Detail formatters and the translation service.  ts is the service:      *)
(* [default_locale, missing_text_strategy, pattern_cache, delegates].      *)

RECURSIVE translate(_, _, _, _)
RECURSIVE detail_format(_, _, _, _)

\* ListFormatter.format: [process(item) for item in inst], from the i-th on
RECURSIVE process_items(_, _, _, _, _, _)
process_items(ts, c, locale, items, i, as_strings) ==
    IF i > Len(items)
    THEN Ok(as_strings, c)
    ELSE Then(create_formatter(ts, c, locale, items[i], <<>>), LAMBDA f :
         Then(detail_format(ts, Ctx(f), f.val, items[i]), LAMBDA r :
         process_items(ts, Ctx(r), locale, items, i + 1, Append(as_strings, r.val))))

\* A list formatter that ignores its type option
get_tail_joiner_and_only(options) == and_message

\* ListFormatter.get_tail_joiner
get_tail_joiner(options) ==
    IF "type" \in DOMAIN options /\ options["type"] = Str(<<"or">>)
    THEN or_message
    ELSE and_message

\* ListFormatter.format, the statements after as_strings is built
join_items(ts, p, fmt) ==
    LET as_strings == p.val
        tail == as_strings[Len(as_strings)]
        head == SubSeq(as_strings, 1, Len(as_strings) - 1)
        join_tail(cx, head1) ==
            Then(translate(ts, cx, get_tail_joiner(fmt.options), fmt.locale), LAMBDA tj :
            Ok(join(tj.val, <<head1, tail>>), Ctx(tj)))
    IN  IF Len(as_strings) = 1
        THEN Ok(as_strings[1], Ctx(p))
        ELSE IF Len(head) > 1
        THEN Then(translate(ts, Ctx(p), comma_message, fmt.locale), LAMBDA cj :
             join_tail(Ctx(cj), join(cj.val, head)))
        ELSE join_tail(Ctx(p), head[1])

\* ListFormatter.format
ListFormatter_format(ts, c, fmt, inst) ==
    IF Len(inst.v) = 0
    THEN translate(ts, c, empty_message, fmt.locale)
    ELSE Then(process_items(ts, c, fmt.locale, inst.v, 1, <<>>), LAMBDA p :
         join_items(ts, p, fmt))

\* A number formatter that takes the .one text for the tag one only and the
\* .other text for every other tag
get_plural_message_by_tag(ts, c, fmt, tag) ==
    translate(ts, c,
              I18NMessage(Str(fmt.options["plural"].v
                              \o (IF tag = "one" THEN <<".one">> ELSE <<".other">>)),
                          None, <<>>, <<>>),
              fmt.locale)

\* NumberFormatter.get_plural_message
get_plural_message(ts, c, fmt, tag) ==
    LET base == fmt.options["plural"]
        retry(one) ==
            IF one.ok THEN one
            ELSE IF tag = "other" THEN one
            ELSE translate(ts, Ctx(one),
                           I18NMessage(Str(base.v \o <<".other">>), None, <<>>, <<>>),
                           fmt.locale)
    IN  IF base.t # "str"
        THEN Raise(Exc("TypeError", "plural_message_base + '.one'", base, None, None), c)
        ELSE retry(translate(ts, c, I18NMessage(Str(base.v \o <<".one">>), None, <<>>, <<>>),
                             fmt.locale))

\* NumberFormatter.format: the plural tag of the value
plural_tag(inst) ==
    IF NumEquals(inst, 0) THEN "zero"
    ELSE IF NumEquals(inst, 1) THEN "one"
    ELSE IF NumEquals(inst, 2) THEN "two"
    ELSE "other"

\* NumberFormatter.format; plural=None is the default of the constructor
NumberFormatter_format(ts, c, fmt, inst) ==
    LET message == IF IsInt(inst) THEN int_message ELSE float_message
        plural_message_base == IF "plural" \in DOMAIN fmt.options
                               THEN fmt.options["plural"] ELSE None
        with_text(b, text) ==
            IF b.ok
            THEN Ok(Str(b.val.v \o <<" ">> \o text.val.v), Ctx(text))
            ELSE Raise(b.err, Ctx(text))
    IN  Then(translate(ts, c, message, fmt.locale), LAMBDA spec :
        IF plural_message_base = None
        THEN Lift(percent(spec.val, inst), Ctx(spec))
        ELSE Then(get_plural_message(ts, Ctx(spec), fmt, plural_tag(inst)), LAMBDA text :
             with_text(percent(spec.val, inst), text)))

\* BabelDateFormatter.format: babel's format_date, which this repository does
\* not hold; its text is left as a symbol naming the call
BabelDateFormatter_format(c, fmt, inst) ==
    Ok(Str(<<"format_date">>), c)

\* <formatter>.format(inst) of the formatter a factory created
detail_format(ts, c, fmt, inst) ==
    CASE fmt.factory = StringFormatterFactory -> Ok(inst, c)
      [] fmt.factory = I18nMessageFormatterFactory -> translate(ts, c, inst, fmt.locale)
      [] fmt.factory = ListFormatterFactory -> ListFormatter_format(ts, c, fmt, inst)
      [] fmt.factory = NumberFormatterFactory -> NumberFormatter_format(ts, c, fmt, inst)
      [] OTHER -> BabelDateFormatter_format(c, fmt, inst)

\* IndexRef.get: args[index], Python's indexing of a tuple
IndexRef_get(ref, args) ==
    LET n == IntOf(ref.index)
    IN  IF 0 <= n /\ n < Len(args) THEN [ok |-> TRUE, val |-> args[n + 1], err |-> None]
        ELSE IF n < 0 /\ -n <= Len(args)
        THEN [ok |-> TRUE, val |-> args[Len(args) + n + 1], err |-> None]
        ELSE [ok |-> FALSE, val |-> None,
              err |-> Exc("IndexError", "args[index]", ref.index, None, None)]

\* NameRef.get: kwargs[name]
NameRef_get(ref, kwargs) ==
    IF ref.name.t \in {"list", "dict"}
    THEN [ok |-> FALSE, val |-> None,
          err |-> Exc("TypeError", "unhashable", ref.name, None, None)]
    ELSE IF ref.name \in DOMAIN kwargs
    THEN [ok |-> TRUE, val |-> kwargs[ref.name], err |-> None]
    ELSE [ok |-> FALSE, val |-> None,
          err |-> Exc("KeyError", "kwargs[name]", ref.name, None, None)]

\* TextFragment.append_to and ArgumentFragment.append_to; the outcome's value
\* is the buffer
append_to(ts, c, fragment, buffer, locale, args, kwargs) ==
    IF fragment.f = "text"
    THEN Ok(buffer \o fragment.text.v, c)
    ELSE Then(Lift(IF fragment.ref.r = "index"
                   THEN IndexRef_get(fragment.ref, args)
                   ELSE NameRef_get(fragment.ref, kwargs), c), LAMBDA value :
         Then(create_formatter(ts, c, locale, value.val, fragment.options), LAMBDA f :
         Then(detail_format(ts, Ctx(f), f.val, value.val), LAMBDA text :
         Ok(buffer \o text.val.v, Ctx(text)))))

\* MessageFormatter.format: the fragments from the i-th on
RECURSIVE format_from(_, _, _, _, _, _, _, _)
format_from(ts, c, fragments, i, buffer, locale, args, kwargs) ==
    IF i > Len(fragments)
    THEN Ok(Str(buffer), c)
    ELSE Then(append_to(ts, c, fragments[i], buffer, locale, args, kwargs), LAMBDA r :
         format_from(ts, Ctx(r), fragments, i + 1, r.val, locale, args, kwargs))

MessageFormatter_format(ts, c, formatter, locale, args, kwargs) ==
    format_from(ts, c, formatter.fragments, 1, <<>>, locale, args, kwargs)

----------------------------------------------------------------------------
(* TranslationService.translate *)

\* A translate that lets the message's locale win over the argument
effective_locale_message_first(ts, i18n_message, locale) ==
    IF i18n_message.locale # None THEN i18n_message.locale
    ELSE IF locale # None THEN locale
    ELSE ts.default_locale

\* The locale translate works with: the argument, else the message's, else
\* the service's default
effective_locale(ts, i18n_message, locale) ==
    IF locale # None THEN locale
    ELSE IF i18n_message.locale # None THEN i18n_message.locale
    ELSE ts.default_locale

\* A translate without its outer except clause
translate_error_unwrapped(i18n_message, locale, e) == e

\* The outer except clause of translate: 'Error translating %r, locale=%r: %s'
translate_error(i18n_message, locale, e) ==
    Exc("I18nException", "Error translating", i18n_message, locale, e)

\* The inner except clause of translate: 'Error formatting with ...'
format_error(formatter, e) ==
    Exc("I18nException", "Error formatting", formatter, None, e)

\* A translate that, when the lookup or the formatting fails at another
\* locale than the default, translates the message again at the default locale
translate_again_at_default(ts, c, i18n_message, locale_arg) ==
    LET again(locale, r) ==
            IF r.ok \/ locale = ts.default_locale THEN r
            ELSE translate(ts, Ctx(r), i18n_message, ts.default_locale)
        wrapped(locale, formatter, r) ==
            IF r.ok THEN r
            ELSE Raise(translate_error(i18n_message, locale, format_error(formatter, r.err)),
                       Ctx(r))
        run(locale, lk, c2) ==
            IF ~lk.out.ok
            THEN Raise(translate_error(i18n_message, locale, lk.out.err), c2)
            ELSE IF lk.out.val = None
            THEN Raise(translate_error(i18n_message, locale,
                           Exc("I18nException", "Missing formatter", i18n_message, locale, None)),
                       c2)
            ELSE wrapped(locale, lk.out.val,
                         MessageFormatter_format(ts, c2, lk.out.val, locale,
                                                 i18n_message.args, i18n_message.kwargs))
        looked_up(locale, lk) ==
            again(locale,
                  run(locale, lk,
                      Logged(Created(Entered(c), lk.created),
                             [req |-> i18n_message, locale |-> locale, missing |-> lk.missing,
                              applied_to |-> lk.applied_to, depth |-> c.depth + 1,
                              formatter |-> IF lk.out.ok THEN lk.out.val ELSE None])))
        resolved(locale) ==
            Returned(looked_up(locale, lookup_message(ts, i18n_message, locale)), c)
    IN  resolved(effective_locale(ts, i18n_message, locale_arg))

\* TranslationService.translate

translate(ts, c, i18n_message, locale_arg) ==
    LET wrapped(locale, formatter, r) ==
            IF r.ok THEN r
            ELSE Raise(translate_error(i18n_message, locale, format_error(formatter, r.err)),
                       Ctx(r))
        run(locale, lk, c2) ==
            IF ~lk.out.ok
            THEN Raise(translate_error(i18n_message, locale, lk.out.err), c2)
            ELSE IF lk.out.val = None
            THEN Raise(translate_error(i18n_message, locale,
                           Exc("I18nException", "Missing formatter", i18n_message, locale, None)),
                       c2)
            ELSE wrapped(locale, lk.out.val,
                         MessageFormatter_format(ts, c2, lk.out.val, locale,
                                                 i18n_message.args, i18n_message.kwargs))
        looked_up(locale, lk) ==
            run(locale, lk,
                Logged(Created(Entered(c), lk.created),
                       [req |-> i18n_message, locale |-> locale, missing |-> lk.missing,
                        applied_to |-> lk.applied_to, depth |-> c.depth + 1,
                        formatter |-> IF lk.out.ok THEN lk.out.val ELSE None]))
        resolved(locale) ==
            Returned(looked_up(locale, lookup_message(ts, i18n_message, locale)), c)
    IN  resolved(effective_locale(ts, i18n_message, locale_arg))

----------------------------------------------------------------------------
(* Locales used by the checks *)

en == Str(<<"en">>)
en_US == Str(<<"en", "_", "US">>)
de == Str(<<"de">>)
de_CH == Str(<<"de", "_", "CH">>)
de_DE == Str(<<"de", "_", "DE">>)
it == Str(<<"it">>)

\* Default locales a LocaleFallbackStrategy is constructed with
FallbackDefaults ==
    {None, en, en_US, Str(<<>>), Str(<<"_">>), Str(<<"en", "_", "US", "_", "x">>)}

\* Locales apply() is called with
FallbackRequested ==
    {None} \cup {Str(s) : s \in SeqsUpTo({"de", "CH", "en", "_"}, MaxLocaleLen)}

InitFallback ==
    /\ default_locale \in FallbackDefaults
    /\ missing_text_strategy = "Fail"
    /\ pattern_cache = <<>>
    /\ delegates = <<>>
    /\ cache = <<>>
    /\ last = [op |-> "none"]
    /\ registering = [pc |-> "idle"]

Apply(locale) ==
    /\ last' = [op |-> "apply", locale |-> locale,
                result |-> LocaleFallbackStrategy_apply(default_locale, locale)]
    /\ UNCHANGED <<registering, default_locale, missing_text_strategy, pattern_cache, delegates, cache>>

NextFallback == \E locale \in FallbackRequested : Apply(locale)

SpecFallback == InitFallback /\ [][NextFallback]_vars

----------------------------------------------------------------------------
(* The service and its operations *)

Service ==
    [default_locale |-> default_locale, missing_text_strategy |-> missing_text_strategy,
     pattern_cache |-> pattern_cache, delegates |-> delegates]

\* TranslationService(default_locale=en_US): the state after construction
Init ==
    /\ default_locale = en_US
    /\ missing_text_strategy = "Fail"
    /\ pattern_cache = <<>>
    /\ delegates = BuiltinDelegates
    /\ cache = <<>>
    /\ last = [op |-> "none"]
    /\ registering = [pc |-> "idle"]

\* message_provider.register_message(key, locale, pattern)
Register(key, locale, pattern) ==
    LET r == register_message(pattern_cache, key, locale, pattern)
    IN  /\ pattern_cache' = r.pattern_cache
        /\ last' = [op |-> "register", key |-> key, locale |-> locale, pattern |-> pattern,
                    ok |-> r.ok, err |-> r.err]
        /\ UNCHANGED <<registering, default_locale, missing_text_strategy, delegates, cache>>

\* The catalog with a dict for each of the locales
with_created(pc, locales) ==
    [locale \in DOMAIN pc \cup locales |-> IF locale \in DOMAIN pc THEN pc[locale] ELSE <<>>]

\* service.translate(i18n_message, locale)
Translate(i18n_message, locale) ==
    LET r == translate(Service, Caller(cache), i18n_message, locale)
    IN  /\ cache' = r.cache
        /\ pattern_cache' = with_created(pattern_cache, r.created)
        /\ last' = [op |-> "translate", req |-> i18n_message, locale |-> locale,
                    ok |-> r.ok, val |-> r.val, err |-> r.err, log |-> r.log]
        /\ UNCHANGED <<registering, default_locale, missing_text_strategy, delegates>>

\* message_provider.register_message(key, locale, pattern) on another thread,
\* up to the call of the parser: the locale's dict is looked up or created
RegisterBegin(key, locale, pattern) ==
    /\ registering.pc = "idle"
    /\ pattern_cache' = register_begin(pattern_cache, locale)
    /\ registering' = [pc |-> "parse", key |-> key, locale |-> locale, pattern |-> pattern]
    /\ UNCHANGED <<default_locale, missing_text_strategy, delegates, cache, last>>

\* The rest of that call: the pattern is parsed (the parser touches no shared
\* state) and the formatter is stored, or the parser's exception leaves
RegisterEnd ==
    LET p == parse(registering.pattern)
    IN  /\ registering.pc = "parse"
        /\ pattern_cache' =
              IF p.ok
              THEN register_store(pattern_cache, registering.key, registering.locale, p.val)
              ELSE pattern_cache
        /\ last' = [op |-> "register", key |-> registering.key, locale |-> registering.locale,
                    pattern |-> registering.pattern, ok |-> p.ok, err |-> p.err]
        /\ registering' = [pc |-> "idle"]
        /\ UNCHANGED <<default_locale, missing_text_strategy, delegates, cache>>

\* A register that puts the factory at the front of the list
RegisterFactoryFirst(delegate) ==
    /\ delegates' = <<delegate>> \o delegates
    /\ last' = [op |-> "register_factory", delegate |-> delegate]
    /\ UNCHANGED <<registering, default_locale, missing_text_strategy, pattern_cache, cache>>

\* service.formatter_factory.register(delegate)
RegisterFactory(delegate) ==
    /\ delegates' = Append(delegates, delegate)
    /\ last' = [op |-> "register_factory", delegate |-> delegate]
    /\ UNCHANGED <<registering, default_locale, missing_text_strategy, pattern_cache, cache>>

\* service.formatter_factory.create_formatter(locale, inst, options)
Dispatch(locale, inst, options) ==
    LET r == create_formatter(Service, Caller(cache), locale, inst, options)
    IN  /\ cache' = r.cache
        /\ last' = [op |-> "dispatch", inst |-> inst, locale |-> locale, options |-> options,
                    ok |-> r.ok, val |-> r.val, err |-> r.err]
        /\ UNCHANGED <<registering, default_locale, missing_text_strategy, pattern_cache, delegates>>

----------------------------------------------------------------------------
(* Messages and catalog entries of tests/test_basics.py *)

Key(k) == Str(<<k>>)
Text(x) == Str(<<x>>)

color == I18NMessage(Key("test_basics.color"), None, <<>>, <<>>)
hello(name) == I18NMessage(Key("test_basics.hello"), None, <<name>>, (Text("name") :> name))

HelloByName == ListV(<<Text("Hello, "), DictV([arg |-> Text("name")]), Text(".")>>)
CiaoByIndex == ListV(<<Text("Ciao, "), DictV([arg |-> IntV(0)]), Text(".")>>)

\* The registrations made on the service
Registrations ==
    { <<color.key, en, Text("colour")>>,
      <<color.key, en_US, Text("color")>>,
      <<color.key, de, Text("Farbe")>>,
      <<Key("test_basics.hello"), en, HelloByName>>,
      <<Key("test_basics.hello"), it, CiaoByIndex>> }

\* The requests translated
Requests ==
    { color, with_locale(color, de),
      hello(Text("user")),
      hello(color),
      hello(with_locale(color, de)),
      hello(None),
      I18NMessage(Key("test_basics.hello"), None, <<>>, <<>>) }

\* The locale argument of translate
LocaleArgs == {None, en, de_DE, it}

Next ==
    \/ \E reg \in Registrations : Register(reg[1], reg[2], reg[3])
    \/ \E m \in Requests, locale \in LocaleArgs : Translate(m, locale)

Spec == Init /\ [][Next]_vars

----------------------------------------------------------------------------
(* Lists: the messages and catalog entries of the list tests *)

\* The longest flat list translated
MaxItems == 3

and_list(items) ==
    I18NMessage(Key("test_basics.and_list"), None, items, (Text("items") :> TupleV(items)))
or_list(items) ==
    I18NMessage(Key("test_basics.or_list"), None, items, (Text("items") :> TupleV(items)))

AndListPattern == ListV(<<DictV([arg |-> Text("items")])>>)
OrListPattern == ListV(<<DictV([arg |-> Text("items"), type |-> Text("or")])>>)

ListRegistrations ==
    { <<and_message.key, de_DE, Text(" und ")>>,
      <<or_message.key, en, Text(" or ")>>,
      <<comma_message.key, en, Text(", ")>>,
      <<empty_message.key, en, Text("nothing")>>,
      <<Key("test_basics.and_list"), en, AndListPattern>>,
      <<Key("test_basics.or_list"), en, OrListPattern>> }

\* The i-th item of a flat list
Item(i) == Text(ToString(i))

\* The flat lists of up to MaxItems items, and lists with a list as an item
ItemLists ==
    {[i \in 1..n |-> Item(i)] : n \in 0..MaxItems}
        \cup { <<Item(1), ListV(<<Item(2), Item(3)>>)>> }

ListRequests == {and_list(items) : items \in ItemLists} \cup {or_list(items) : items \in ItemLists}

ListLocaleArgs == {None, de_DE}

NextList ==
    \/ \E reg \in ListRegistrations : Register(reg[1], reg[2], reg[3])
    \/ \E m \in ListRequests, locale \in ListLocaleArgs : Translate(m, locale)

SpecList == Init /\ [][NextList]_vars

----------------------------------------------------------------------------
(* Patterns: literal strings with braces and sequences of parts *)

\* The longest literal-string pattern, in characters
MaxPatLen == 3

\* The longest sequence pattern drawn from Parts
MaxParts == 2

PatternKey == Key("test_message_parser.pattern")

\* The strings of braces, and a text in braces
StringPatterns ==
    {Str(p) : p \in SeqsUpTo({"{", "}"}, MaxPatLen)} \cup {Str(<<"{", "a", "}">>)}

\* Parts of sequence patterns: a text, an argument descriptor with an option,
\* and a part that is neither a str nor a dict
Parts ==
    { Text("{"),
      DictV([arg |-> IntV(0), type |-> Text("or")]),
      IntV(7) }

SequencePatterns ==
    {ListV(p) : p \in SeqsUpTo(Parts, MaxParts)}
        \cup { TupleV(<<Text("{a}"), DictV([arg |-> IntV(0)])>>),
               ListV(<<DictV([arg |-> Text("name")]), Text("{")>>),
               ListV(<<DictV([arg |-> BoolV(TRUE)]), Text("}")>>),
               ListV(<<Text("a"), DictV([type |-> Text("or")])>>),
               ListV(<<None>>),
               DictV([arg |-> IntV(0)]) }

Patterns == StringPatterns \cup SequencePatterns

\* Requests for the pattern: without arguments, with a str and with a list
PatternRequest(value) ==
    I18NMessage(PatternKey, None, <<value>>, (Text("name") :> value))

PatternRequests ==
    { I18NMessage(PatternKey, None, <<>>, <<>>),
      PatternRequest(Text("x")),
      PatternRequest(ListV(<<Text("x"), Text("y")>>)) }

NextParse ==
    \/ \E pattern \in Patterns : Register(PatternKey, en, pattern)
    \/ \E m \in PatternRequests, locale \in {None, de_DE} : Translate(m, locale)

SpecParse == Init /\ [][NextParse]_vars

----------------------------------------------------------------------------
(* Plurals: the messages and catalog entries of the plural tests *)

\* The largest of the consecutive numbers translated
MaxNumber == 3

PluralBase == Text("test_basics.plural")
PluralOne == I18NMessage(Str(PluralBase.v \o <<".one">>), None, <<>>, <<>>)
PluralOther == I18NMessage(Str(PluralBase.v \o <<".other">>), None, <<>>, <<>>)

plural(n) == I18NMessage(Key("test_basics.plural"), None, <<n>>, (Text("n") :> n))

PluralPattern == ListV(<<DictV([arg |-> Text("n"), plural |-> PluralBase])>>)

PluralRegistrations ==
    { <<int_message.key, en, Text("%d")>>,
      <<float_message.key, en, Text("%.2f")>>,
      <<PluralOne.key, en, Text("house")>>,
      <<PluralOther.key, en, Text("houses")>>,
      <<Key("test_basics.plural"), en, PluralPattern>> }

\* 0 .. MaxNumber, a larger and a negative int, True, 1.0 and 2.5
Numbers ==
    {IntV(n) : n \in 0..MaxNumber}
        \cup {IntV(10), IntV(-1), BoolV(TRUE), FloatV(100), FloatV(250)}

NextPlural ==
    \/ \E reg \in PluralRegistrations : Register(reg[1], reg[2], reg[3])
    \/ \E n \in Numbers, locale \in {None, de_DE} : Translate(plural(n), locale)

SpecPlural == Init /\ [][NextPlural]_vars

----------------------------------------------------------------------------
(* A service whose message provider logs and substitutes missing texts *)

\* TranslationService(default_locale=en_US, message_provider=
\* SimpleMessageProvider(en_US, parser, LogMissingTextStrategy()))
InitLog ==
    /\ default_locale = en_US
    /\ missing_text_strategy = "Log"
    /\ pattern_cache = <<>>
    /\ delegates = BuiltinDelegates
    /\ cache = <<>>
    /\ last = [op |-> "none"]
    /\ registering = [pc |-> "idle"]

SpecLog == InitLog /\ [][Next]_vars

----------------------------------------------------------------------------
(* Message requests: comparison and with_locale *)

\* Requests that differ in key, preferred locale and arguments
MessageRequests ==
    { I18NMessage(m.key, locale, m.args, m.kwargs) :
        m \in {color, hello(Text("user")), hello(Text("world")), hello(color)},
        locale \in {None, en, de_DE} }

\* a == b
Compare(a, b) ==
    LET r == I18NMessage_eq(a, b)
    IN  /\ last' = [op |-> "eq", left |-> a, right |-> b,
                    ok |-> r.ok, val |-> r.val, err |-> r.err]
        /\ UNCHANGED <<registering, default_locale, missing_text_strategy, pattern_cache, delegates, cache>>

\* m.with_locale(locale): the method assigns to no field of m
WithLocale(m, locale) ==
    /\ last' = [op |-> "with_locale", self_before |-> m, locale |-> locale,
                result |-> with_locale(m, locale), self_after |-> m]
    /\ UNCHANGED <<registering, default_locale, missing_text_strategy, pattern_cache, delegates, cache>>

NextMessage ==
    \/ \E a \in MessageRequests, b \in MessageRequests : Compare(a, b)
    \/ \E m \in MessageRequests, locale \in {en, de_DE, it} : WithLocale(m, locale)

SpecMessage == Init /\ [][NextMessage]_vars

----------------------------------------------------------------------------
(* Formatter dispatch with factories registered at run time *)

\* The most factories registered on one service
MaxRegistered == 2

DATE == DateV("2016-12-26")

\* Values dispatched: one per built-in factory, a date, a datetime (a subclass
\* of date) and None, which no factory handles
DispatchValues ==
    { Text("x"), color, ListV(<<>>), IntV(1), DATE, DateTimeV("2016-12-26T12:00"), None }

DispatchOptions == { <<>>, [style |-> Text("short")] }

NextDispatch ==
    \/ \E delegate \in {DateFormatterFactory, OtherDateFormatterFactory} :
          /\ Len(delegates) < Len(BuiltinDelegates) + MaxRegistered
          /\ RegisterFactory(delegate)
    \/ \E inst \in DispatchValues, options \in DispatchOptions : Dispatch(en, inst, options)

SpecDispatch == Init /\ [][NextDispatch]_vars

----------------------------------------------------------------------------
(* Argument references: patterns of a text and one argument *)

\* The most positional arguments of a request
MaxArgs == 2

ArgsKey == Key("test_basics.args")

\* The i-th positional argument: 'a', 'aa', ...
ArgValue(i) == Str([j \in 1..i |-> "a"])

\* ['x', {'arg': ref}]
ArgPattern(ref) == ListV(<<Text("x"), DictV([arg |-> ref])>>)

\* References by index, from below -MaxArgs to MaxArgs, and by name
ArgRefs ==
    {IntV(n) : n \in (0 - MaxArgs - 1)..MaxArgs} \cup {Text("name"), Text("other")}

\* Requests with no to MaxArgs positional arguments, without and with the
\* named argument 'name'
ArgRequests ==
    { I18NMessage(ArgsKey, None, [i \in 1..n |-> ArgValue(i)], kwargs) :
        n \in 0..MaxArgs, kwargs \in {<<>>, (Text("name") :> Text("n"))} }

NextArgs ==
    \/ \E ref \in ArgRefs : Register(ArgsKey, en, ArgPattern(ref))
    \/ \E m \in ArgRequests, locale \in {None, de_DE} : Translate(m, locale)

SpecArgs == Init /\ [][NextArgs]_vars

----------------------------------------------------------------------------
(* A register_message call interleaved with translate calls *)

\* Registrations made while translate calls run: new entries, a second
\* pattern for an entry and a pattern the parser rejects
InterleavedRegistrations ==
    { <<color.key, en, Text("colour")>>,
      <<color.key, en, Text("Colour")>>,
      <<color.key, de, Text("Farbe")>>,
      <<Key("test_basics.hello"), en, HelloByName>>,
      <<color.key, de, ListV(<<Text("Farbe"), IntV(7)>>)>> }

InterleavedRequests == { color, hello(color) }

NextInterleaved ==
    \/ \E reg \in InterleavedRegistrations : RegisterBegin(reg[1], reg[2], reg[3])
    \/ RegisterEnd
    \/ \E m \in InterleavedRequests, locale \in {None, de_DE} : Translate(m, locale)

SpecInterleaved == Init /\ [][NextInterleaved]_vars

----------------------------------------------------------------------------
(* Nested arguments: messages in messages and in lists *)

\* The most messages nested in the argument of a request
MaxDepth == 2

\* hello(hello(... color)), d messages around color
RECURSIVE Nested(_)
Nested(d) == IF d = 0 THEN color ELSE hello(Nested(d - 1))

\* and_list(<nested message>, 'x')
NestedList(d) == and_list(<<Nested(d), Text("x")>>)

NestedArguments ==
    {Nested(d) : d \in 0..MaxDepth} \cup {NestedList(d) : d \in 0..(MaxDepth - 1)}

NestedRegistrations ==
    { <<color.key, en, Text("colour")>>,
      <<color.key, de, Text("Farbe")>>,
      <<Key("test_basics.hello"), en, HelloByName>>,
      <<Key("test_basics.and_list"), en, AndListPattern>>,
      <<and_message.key, en, Text(" and ")>> }

NextNested ==
    \/ \E reg \in NestedRegistrations : Register(reg[1], reg[2], reg[3])
    \/ \E m \in NestedArguments, locale \in {None, de_DE} : Translate(m, locale)

SpecNested == Init /\ [][NextNested]_vars

----------------------------------------------------------------------------
(* C1 *)

\* The lengths of the prefixes of s that the claim lists: s itself and every
\* prefix that is followed by a separator
CutLengths(s) == {Len(s)} \cup {i \in 0..(Len(s) - 1) : s[i + 1] = "_"}

\* The prefixes of s of those lengths, longest first
Truncations(s) ==
    LET C == CutLengths(s)
        kth(k) == CHOOSE x \in C : Cardinality({y \in C : y > x}) = k - 1
    IN  [k \in 1..Cardinality(C) |-> Str(SubSeq(s, 1, kth(k)))]

\* C1: for every default locale D and requested locale R, apply(R) is R and
\* its successive truncations at the last "_", most specific first, followed
\* by the same for D, duplicates kept.
C1_FallbackChain ==
    (last.op = "apply" /\ last.locale # None /\ default_locale # None)
        => last.result = Truncations(last.locale.v) \o Truncations(default_locale.v)

C1_Witness ==
    /\ last.op = "apply"
    /\ default_locale = en_US
    /\ last.locale = de_CH
    /\ last.result = <<de_CH, de, en_US, en>>

----------------------------------------------------------------------------
(* C2 *)

\* The locale the claims expect translate to work with
ExpectedLocale ==
    IF last.locale # None THEN last.locale
    ELSE IF last.req.locale # None THEN last.req.locale
    ELSE default_locale

\* C2: translate(request, locale) works with the explicit locale argument
\* when one is given, otherwise with the request's preferred locale when it
\* is set, otherwise with the service's default locale.
C2_EffectiveLocale ==
    last.op = "translate"
        => /\ last.log[1].req = last.req
           /\ last.log[1].locale = ExpectedLocale

\* An explicit locale (en) overrides the preferred locale (de) of the request
C2_Witness ==
    /\ last.op = "translate"
    /\ last.req = with_locale(color, de)
    /\ last.locale = en
    /\ lookup_single_locale(pattern_cache, color.key, de) # None
    /\ last.ok
    /\ last.val = Text("colour")

----------------------------------------------------------------------------
(* C3 *)

\* The fallback chain of locale L on this service
Chain(L) == Truncations(L.v) \o Truncations(default_locale.v)

HasEntry(locale, key) ==
    locale \in DOMAIN pattern_cache /\ key \in DOMAIN pattern_cache[locale]

\* The positions of the chain of L that hold an entry for key
Hits(key, L) == {i \in 1..Len(Chain(L)) : HasEntry(Chain(L)[i], key)}

FirstHit(key, L) == CHOOSE i \in Hits(key, L) : \A j \in Hits(key, L) : i <= j

\* C3: the lookup of a request at locale L returns the formatter registered
\* for its key under the first locale of L's fallback chain that has one; the
\* missing-text strategy is applied, to the request and L, exactly when no
\* locale of the chain has an entry, and the fail-fast strategy then raises.
C3_Lookup ==
    last.op = "translate"
        => \A i \in 1..Len(last.log) :
              LET ev == last.log[i]
                  key == ev.req.key
              IN  /\ ev.missing <=> Hits(key, ev.locale) = {}
                  /\ Hits(key, ev.locale) # {}
                        => /\ ev.formatter
                                = pattern_cache[Chain(ev.locale)[FirstHit(key, ev.locale)]][key]
                           /\ ev.applied_to = <<>>
                  /\ Hits(key, ev.locale) = {}
                        => /\ ev.applied_to = <<ev.req, ev.locale>>
                           /\ ev.formatter = None
                           /\ ~last.ok

\* color is registered for de, en_US and en and is looked up at de_DE: the
\* entry of de is returned
C3_Witness ==
    /\ last.op = "translate"
    /\ last.req = color
    /\ last.locale = de_DE
    /\ HasEntry(de, color.key) /\ HasEntry(en_US, color.key) /\ HasEntry(en, color.key)
    /\ last.ok
    /\ last.val = Text("Farbe")

----------------------------------------------------------------------------
(* C4 *)

\* C4: translate returns a string or raises the translation error, never
\* another kind of error, and the error raised carries the request, its
\* effective locale and the causing error.
C4_OneErrorKind ==
    last.op = "translate"
        => \/ /\ last.ok
              /\ last.val.t = "str"
           \/ /\ ~last.ok
              /\ last.err.kind = "I18nException"
              /\ last.err.subject = last.req
              /\ last.err.locale = ExpectedLocale
              /\ last.err.cause # None

\* The translation of a nested message fails for its missing text, and the
\* outer translate raises the translation error of the outer request
C4_Witness ==
    /\ last.op = "translate"
    /\ last.req = hello(color)
    /\ ~last.ok
    /\ last.err.kind = "I18nException"
    /\ last.err.subject = hello(color)
    /\ last.err.cause.what = "Error formatting"
    /\ last.err.cause.cause.what = "Error translating"
    /\ last.err.cause.cause.subject = color
    /\ last.err.cause.cause.cause.what = "Missing text"

----------------------------------------------------------------------------
(* C5 *)

\* The translation at L of a message registered as a literal string: the
\* text of the entry of the first locale of L's chain that has one
TranslationAt(m, L) ==
    pattern_cache[Chain(L)[FirstHit(m.key, L)]][m.key].fragments[1].text.v

\* J: list.or when the type option is 'or', list.and otherwise
TailJoiner(options) ==
    IF "type" \in DOMAIN options /\ options["type"] = Text("or")
    THEN or_message
    ELSE and_message

RECURSIVE ListText(_, _, _)
RECURSIVE CommaJoined(_, _, _)
RECURSIVE NeededBy(_, _)

\* The dispatched text of an item: a string is its own text, a list is
\* rendered as a list without options
ItemText(item, L) ==
    IF item.t = "str" THEN item.v ELSE ListText(item.v, and_message, L)

\* Items 1..k joined by the translation of list.comma
CommaJoined(items, k, L) ==
    IF k = 1 THEN ItemText(items[1], L)
    ELSE CommaJoined(items, k - 1, L) \o TranslationAt(comma_message, L)
            \o ItemText(items[k], L)

\* The rendering the claim gives for a list of n items
ListText(items, J, L) ==
    IF Len(items) = 0 THEN TranslationAt(empty_message, L)
    ELSE IF Len(items) = 1 THEN ItemText(items[1], L)
    ELSE CommaJoined(items, Len(items) - 1, L) \o TranslationAt(J, L)
            \o ItemText(items[Len(items)], L)

\* The joiner messages the rendering of a flat list of n items takes, in the
\* order they are looked up
JoinersOf(n, J) ==
    IF n = 0 THEN <<empty_message>>
    ELSE IF n = 1 THEN <<>>
    ELSE IF n = 2 THEN <<J>>
    ELSE <<comma_message, J>>

\* The messages the rendering of a list takes, those of its items included
NeededBy(items, J) ==
    {JoinersOf(Len(items), J)[i] : i \in 1..Len(JoinersOf(Len(items), J))}
        \cup UNION {IF items[i].t = "str" THEN {} ELSE NeededBy(items[i].v, and_message)
                        : i \in 1..Len(items)}

IsFlat(items) == \A i \in 1..Len(items) : items[i].t = "str"

\* The requests of the translate calls nested in the last one, in order
NestedRequests == [i \in 1..(Len(last.log) - 1) |-> last.log[i + 1].req]

IsPrefix(s, t) == Len(s) <= Len(t) /\ s = SubSeq(t, 1, Len(s))

\* C5: a list of n items rendered at locale L with option type is the
\* translation of list.empty for n = 0, the single item's dispatched text for
\* n = 1 with no joiner message looked up, item1 J item2 for n = 2, and for
\* n >= 3 the items 1..n-1 joined by the translation of list.comma followed by
\* J and the last item, J being the translation of list.or when type is 'or'
\* and of list.and otherwise; every message is looked up at L, and the
\* rendering succeeds exactly when those messages are found.
C5_ListRendering ==
    (/\ last.op = "translate"
     /\ last.req.key \in {Key("test_basics.and_list"), Key("test_basics.or_list")}
     /\ last.log[1].formatter # None)
        => /\ last.ok <=> \A m \in NeededBy(last.req.args,
                                    TailJoiner(last.log[1].formatter.fragments[1].options)) :
                              Hits(m.key, last.log[1].locale) # {}
           /\ last.ok => last.val = Str(ListText(last.req.args,
                                        TailJoiner(last.log[1].formatter.fragments[1].options),
                                        last.log[1].locale))
           /\ \A i \in 2..Len(last.log) : last.log[i].locale = last.log[1].locale
           /\ IsFlat(last.req.args)
                 => /\ IsPrefix(NestedRequests,
                                JoinersOf(Len(last.req.args),
                                    TailJoiner(last.log[1].formatter.fragments[1].options)))
                    /\ last.ok => Len(NestedRequests)
                                    = Len(JoinersOf(Len(last.req.args), and_message))

\* 'a, b und c': three items at de_DE, the comma found at en through the
\* fallback chain and the joiner at de_DE
C5_Witness ==
    /\ last.op = "translate"
    /\ last.req = and_list(<<Item(1), Item(2), Item(3)>>)
    /\ last.locale = de_DE
    /\ last.ok
    /\ last.val = Str(<<"1", ", ", "2", " und ", "3">>)
    /\ NestedRequests = <<comma_message, and_message>>

----------------------------------------------------------------------------
(* C6 *)


\* C6: a nested message request is translated at its own preferred locale
\* when it carries one, and at the enclosing translate's locale only when it
\* carries none.
C6_NestedPreferredLocale ==
    last.op = "translate"
        => \A i \in 2..Len(last.log) :
              last.log[i].locale =
                  IF last.log[i].req.locale # None
                  THEN last.log[i].req.locale
                  ELSE last.log[1].locale

----------------------------------------------------------------------------
(* C7 *)

\* C7: for every string s, parse(s) is a formatter of exactly one text
\* fragment whose literal is s unchanged, and rendering it at any locale with
\* any arguments returns exactly s; braces are neither interpreted nor escaped.
C7_LiteralStrings ==
    /\ (last.op = "register" /\ last.pattern.t = "str")
          => /\ last.ok
             /\ pattern_cache[last.locale][last.key].fragments
                    = <<[f |-> "text", text |-> last.pattern]>>
    /\ (/\ last.op = "translate"
        /\ HasEntry(en, PatternKey)
        /\ \E s \in StringPatterns : pattern_cache[en][PatternKey] = parse(s).val)
          => /\ last.ok
             /\ \E s \in StringPatterns :
                   /\ pattern_cache[en][PatternKey] = parse(s).val
                   /\ last.val = s
             /\ Len(last.log) = 1

\* '{a}' is registered and then rendered at de_DE for a request with
\* arguments: the text is '{a}'
C7_Witness ==
    /\ last.op = "translate"
    /\ HasEntry(en, PatternKey)
    /\ pattern_cache[en][PatternKey].fragments = <<TextFragment(Str(<<"{", "a", "}">>))>>
    /\ last.req = PatternRequest(Text("x"))
    /\ last.locale = de_DE
    /\ last.ok
    /\ last.val = Str(<<"{", "a", "}">>)

----------------------------------------------------------------------------
(* C8 *)

\* The catalog entries: (locale, key, formatter)
Entries(pc) ==
    UNION {{<<locale, key, pc[locale][key]>> : key \in DOMAIN pc[locale]} : locale \in DOMAIN pc}

\* A string, or a mapping that contains 'arg'
WellFormed(part) == part.t = "str" \/ (part.t = "dict" /\ "arg" \in DOMAIN part.v)

\* An integer of the language: bool is a subtype of int
IsInteger(value) == value.t \in {"int", "bool"}

\* The fragment the claim gives for a well-formed element
FragmentOf(part) ==
    IF part.t = "str"
    THEN [f |-> "text", text |-> part]
    ELSE [f |-> "arg",
          ref |-> IF IsInteger(part.v["arg"])
                  THEN [r |-> "index", index |-> part.v["arg"]]
                  ELSE [r |-> "name", name |-> part.v["arg"]],
          options |-> [k \in (DOMAIN part.v) \ {"arg"} |-> part.v[k]]]

\* C8: for a sequence pattern, parse yields one fragment per element, in
\* order: a text fragment for a string, an argument fragment for a mapping
\* with 'arg' (by-index for an integer 'arg', by-name otherwise, the options
\* being the mapping minus 'arg'); an element of any other kind makes parse
\* fail with the pattern error, and no formatter is stored.
C8_SequencePatterns ==
    [][(last'.op = "register" /\ last'.pattern.t \in {"list", "tuple"})
          => IF \A i \in 1..Len(last'.pattern.v) : WellFormed(last'.pattern.v[i])
             THEN /\ last'.ok
                  /\ pattern_cache'[last'.locale][last'.key].fragments
                        = [i \in 1..Len(last'.pattern.v) |-> FragmentOf(last'.pattern.v[i])]
             ELSE /\ ~last'.ok
                  /\ last'.err.kind = "I18nException"
                  /\ last'.err.what = "Error parsing"
                  /\ last'.err.subject = last'.pattern
                  /\ Entries(pattern_cache') = Entries(pattern_cache)]_vars

\* ['{', {'arg': 0, 'type': 'or'}] is stored as a text fragment and a
\* by-index argument fragment with the option type
C8_Witness ==
    /\ last.op = "register"
    /\ last.pattern = ListV(<<Text("{"), DictV([arg |-> IntV(0), type |-> Text("or")])>>)
    /\ last.ok
    /\ pattern_cache[en][PatternKey].fragments
          = <<TextFragment(Text("{")),
              ArgumentFragment(IndexRef(IntV(0)), [type |-> Text("or")])>>

----------------------------------------------------------------------------
(* C9 *)

\* The value of a number is the integer k
HasValue(n, k) ==
    \/ n.t = "int" /\ n.v = k
    \/ n.t = "bool" /\ k = (IF n.v THEN 1 ELSE 0)
    \/ n.t = "float" /\ n.v = 100 * k

\* The values with the tags zero, one and two
HasSmallTag(n) == HasValue(n, 0) \/ HasValue(n, 1) \/ HasValue(n, 2)

\* The base text of a number: the translation of its format spec applied to it
BaseText(n, L) ==
    percent(Str(TranslationAt(IF n.t = "float" THEN float_message ELSE int_message, L)), n).val.v

\* The translate calls of the log made for the message m
LookupsOf(m) == {i \in 1..Len(last.log) : last.log[i].req = m}

\* The last translate rendered a number with the option plural=B, and the
\* number's format spec was found
PluralRendered ==
    /\ last.op = "translate"
    /\ last.req.key = Key("test_basics.plural")
    /\ last.log[1].formatter # None
    /\ Hits((IF last.req.args[1].t = "float" THEN float_message ELSE int_message).key,
            last.log[1].locale) # {}

----------------------------------------------------------------------------
(* C10 *)

\* C10: with B.one registered as 'house' and B.other as 'houses', a number n
\* with plural=B is rendered '1 house' for n = 1 and '0 houses', '2 houses'
\* and '10 houses' for n = 0, 2 and 10.
C10_SingularOnlyForOne ==
    (/\ PluralRendered
     /\ HasEntry(en, PluralOne.key)
     /\ HasEntry(en, PluralOther.key)
     /\ last.req.args[1] \in {IntV(0), IntV(1), IntV(2), IntV(10)})
        => /\ last.ok
           /\ last.val = Str(<<ToString(last.req.args[1].v), " ",
                               IF last.req.args[1].v = 1 THEN "house" ELSE "houses">>)

----------------------------------------------------------------------------
(* C11 *)

\* C11: with the log-and-substitute strategy, translate of a request whose
\* key has no entry along the whole fallback chain returns normally, the text
\* being the debug rendering of the request; no error is raised.
C11_LogAndSubstitute ==
    (/\ last.op = "translate"
     /\ missing_text_strategy = "Log"
     /\ Hits(last.req.key, last.log[1].locale) = {})
        => /\ last.ok
           /\ last.val.t = "str"

----------------------------------------------------------------------------
(* C12 *)

\* C12: comparing two requests yields true exactly when their keys,
\* positional arguments and named arguments are equal, whatever their
\* preferred locales are; so m equals m.with_locale(L).
C12_EqualityIgnoresLocale ==
    last.op = "eq"
        => /\ last.ok
           /\ last.val = BoolV(/\ last.left.key = last.right.key
                               /\ last.left.args = last.right.args
                               /\ last.left.kwargs = last.right.kwargs)

----------------------------------------------------------------------------
(* C13 *)

\* C13: m.with_locale(L) returns a request with preferred locale L and the
\* key, positional arguments and named arguments of m, and leaves m, its
\* preferred locale included, unchanged.
C13_WithLocale ==
    last.op = "with_locale"
        => /\ last.result.t = "msg"
           /\ last.result.locale = last.locale
           /\ last.result.key = last.self_before.key
           /\ last.result.args = last.self_before.args
           /\ last.result.kwargs = last.self_before.kwargs
           /\ last.self_after = last.self_before

\* hello('user') preferring de_DE is given the preferred locale it
C13_Witness ==
    /\ last.op = "with_locale"
    /\ last.self_before = I18NMessage(Key("test_basics.hello"), de_DE, <<Text("user")>>,
                                      (Text("name") :> Text("user")))
    /\ last.locale = it
    /\ last.result.locale = it
    /\ last.self_after.locale = de_DE

----------------------------------------------------------------------------
(* C14 *)

\* The positions of the factories in dels whose can_handle accepts inst
Handlers(dels, inst) == { i \in 1..Len(dels) : can_handle(dels[i], inst) }

\* The factory at the smallest position of a non-empty set of positions
Earliest(dels, positions) ==
    dels[CHOOSE i \in positions : \A j \in positions : i <= j]

\* C14: the factory list starts with the built-ins String, Nested Message,
\* List, Number and only grows at its end; a dispatch of a value that some
\* factory can handle uses the first such factory of the list and records it
\* for the value's type; a recorded type keeps its factory in every later
\* step, whatever is registered afterwards, and a dispatch of a recorded type
\* uses the recorded factory.
C14_FirstFactoryWins ==
    [][ /\ SubSeq(delegates', 1, 4) =
            << StringFormatterFactory, I18nMessageFormatterFactory,
               ListFormatterFactory, NumberFormatterFactory >>
        /\ Len(delegates') >= Len(delegates)
        /\ SubSeq(delegates', 1, Len(delegates)) = delegates
        /\ \A T \in DOMAIN cache : T \in DOMAIN cache' /\ cache'[T] = cache[T]
        /\ (last'.op = "dispatch" /\ Handlers(delegates, last'.inst) # {}) =>
              /\ last'.inst.t \in DOMAIN cache'
              /\ cache'[last'.inst.t] =
                    Earliest(delegates, Handlers(delegates, last'.inst))
              /\ last'.ok => last'.val.factory = cache'[last'.inst.t]
        /\ (last'.op = "dispatch" /\ last'.inst.t \in DOMAIN cache /\ last'.ok) =>
              last'.val.factory = cache[last'.inst.t]
      ]_vars

\* A date has been dispatched to the first of two registered date factories
C14_Witness ==
    /\ Len(delegates) = 6
    /\ last.op = "dispatch"
    /\ last.inst = DATE
    /\ last.ok
    /\ last.val.factory = delegates[5]
    /\ cache["date"] = delegates[5]
    /\ delegates[6] # delegates[5]

----------------------------------------------------------------------------
(* C15 *)

\* What a caller of translate sees: the text or the exception raised
Outcome(r) == [ok |-> r.ok, val |-> r.val, err |-> r.err]

\* C15: whatever translate calls were made before (they leave nothing but the
\* dispatch cache behind), a translate of a request at a locale has the
\* outcome that the same call has on a service with the same catalog on which
\* nothing was translated yet: the same text or the same failure.
C15_Deterministic ==
    \A i18n_message \in Requests, locale \in LocaleArgs :
        Outcome(translate(Service, Caller(cache), i18n_message, locale))
          = Outcome(translate(Service, Caller(<<>>), i18n_message, locale))

\* A nested message has been translated after earlier translate calls left
\* the factories of strings and of messages in the dispatch cache
C15_Witness ==
    /\ {"str", "msg"} \subseteq DOMAIN cache
    /\ last.op = "translate"
    /\ last.req = hello(color)
    /\ last.ok

----------------------------------------------------------------------------
(* C16 *)

\* C16: a catalog entry, once stored, is immutable and never deleted: in
\* every step (a register or a translate) each entry of the catalog stays in
\* the catalog with the formatter it had.
C16_EntriesImmutable ==
    [][ \A locale \in DOMAIN pattern_cache : \A key \in DOMAIN pattern_cache[locale] :
            /\ locale \in DOMAIN pattern_cache'
            /\ key \in DOMAIN pattern_cache'[locale]
            /\ pattern_cache'[locale][key] = pattern_cache[locale][key]
      ]_vars

----------------------------------------------------------------------------
(* C17 *)

\* The reference of the pattern registered for ArgsKey
RegisteredRef == pattern_cache[en][ArgsKey].fragments[2].ref

\* An argument error wrapped by translate: an IndexError or a KeyError inside
\* 'Error formatting' inside 'Error translating'
IsArgumentError(err) ==
    /\ err.kind = "I18nException"
    /\ err.cause.kind = "I18nException"
    /\ err.cause.cause.kind \in {"IndexError", "KeyError"}

\* C17: a translate of a pattern 'x' + ByIndex(n) returns 'x' + args[n] when
\* 0 <= n < len(args) and fails with an argument error for every other n; a
\* translate of 'x' + ByName(name) returns 'x' + kwargs[name] when name is a
\* key of the named arguments and fails with an argument error otherwise; a
\* failed translate returns no text.
C17_ArgumentReferences ==
    ( /\ last.op = "translate"
      /\ en \in DOMAIN pattern_cache
      /\ ArgsKey \in DOMAIN pattern_cache[en] ) =>
        /\ RegisteredRef.r = "index" =>
              IF 0 <= RegisteredRef.index.v /\ RegisteredRef.index.v < Len(last.req.args)
              THEN /\ last.ok
                   /\ last.val = Str(<<"x">> \o last.req.args[RegisteredRef.index.v + 1].v)
              ELSE ~last.ok /\ IsArgumentError(last.err)
        /\ RegisteredRef.r = "name" =>
              IF RegisteredRef.name \in DOMAIN last.req.kwargs
              THEN /\ last.ok
                   /\ last.val = Str(<<"x">> \o last.req.kwargs[RegisteredRef.name].v)
              ELSE ~last.ok /\ IsArgumentError(last.err)
        /\ ~last.ok => last.val = None

----------------------------------------------------------------------------
(* C18 *)

\* C18: a dispatch of a value that no registered factory can handle fails
\* with the 'No factory can handle' error and leaves the dispatch cache as it
\* was; and whenever a factory that handles dates is registered, a dispatch of
\* a date, whether or not one failed earlier, succeeds with a registered
\* factory that can handle it.
C18_NoFormatterNotCached ==
    [][ /\ (last'.op = "dispatch" /\ Handlers(delegates, last'.inst) = {}) =>
              /\ ~last'.ok
              /\ last'.err.kind = "I18nException"
              /\ last'.err.what = "No factory can handle"
              /\ last'.err.subject = last'.inst
              /\ cache' = cache
        /\ (last'.op = "dispatch" /\ last'.inst.t \in {"date", "datetime"}
                /\ Handlers(delegates, last'.inst) # {}) =>
              /\ last'.ok
              /\ \E i \in Handlers(delegates, last'.inst) : last'.val.factory = delegates[i]
      ]_vars

\* A dispatch of a date has failed on a service with the built-in factories
\* only, and the cache has no entry for dates
C18_Witness ==
    /\ delegates = BuiltinDelegates
    /\ last.op = "dispatch"
    /\ last.inst = DATE
    /\ ~last.ok
    /\ last.err.what = "No factory can handle"
    /\ "date" \notin DOMAIN cache

----------------------------------------------------------------------------
(* C19 *)

\* The catalog without the locales that have a dict but no entry
WithEntries(pc) == [locale \in {l \in DOMAIN pc : DOMAIN pc[l] # {}} |-> pc[locale]]

\* The keys and locales looked up
LookupKeys == {reg[1] : reg \in InterleavedRegistrations}
LookupLocales == {reg[2] : reg \in InterleavedRegistrations} \cup {en_US, de_DE}

\* C19: while a register(key, locale, pattern) is in progress, every step
\* leaves the result of every lookup as it was, except the step that stores
\* the formatter of a pattern that parsed: after it the lookup of (key,
\* locale) gives the complete formatter that an uninterrupted register of the
\* pattern stores, and every other lookup is as before.  A register whose
\* parse fails leaves all lookups unchanged, and the step that ends a register
\* leaves the catalog that a register made in one piece leaves.  A translate
\* made in between has the outcome it has on the catalog without the dicts
\* that hold no entry.
C19_RegisterIsAtomic ==
    [][ /\ \A key \in LookupKeys, locale \in LookupLocales :
            \/ lookup_single_locale(pattern_cache', key, locale)
                  = lookup_single_locale(pattern_cache, key, locale)
            \/ /\ registering.pc = "parse"
               /\ registering'.pc = "idle"
               /\ registering.key = key
               /\ registering.locale = locale
               /\ last'.ok
               /\ lookup_single_locale(pattern_cache', key, locale)
                     = register_message(<<>>, key, locale, registering.pattern)
                          .pattern_cache[locale][key]
        /\ (registering.pc = "parse" /\ registering'.pc = "idle" /\ ~last'.ok) =>
              WithEntries(pattern_cache') = WithEntries(pattern_cache)
        /\ (registering.pc = "parse" /\ registering'.pc = "idle") =>
              pattern_cache' = register_message(pattern_cache, registering.key,
                                   registering.locale, registering.pattern).pattern_cache
        /\ last'.op = "translate" =>
              Outcome([ok |-> last'.ok, val |-> last'.val, err |-> last'.err])
                = Outcome(translate([Service EXCEPT !.pattern_cache = WithEntries(pattern_cache)],
                                    Caller(cache), last'.req, last'.locale))
      ]_vars

\* A translate has run between the two steps of a register that replaces the
\* entry it looks up, and has rendered the formatter stored before
C19_Witness ==
    /\ registering.pc = "parse"
    /\ registering.key = color.key
    /\ registering.locale = en
    /\ registering.pattern = Text("Colour")
    /\ last.op = "translate"
    /\ last.req = color
    /\ last.ok
    /\ last.val = Text("colour")

----------------------------------------------------------------------------
(* C20 *)

Max(S) == CHOOSE x \in S : \A y \in S : y <= x

\* The values held by a message or a list
Children(value) ==
    IF value.t = "msg"
    THEN {value.args[i] : i \in DOMAIN value.args}
            \cup {value.kwargs[k] : k \in DOMAIN value.kwargs}
    ELSE IF value.t \in {"list", "tuple"}
    THEN {value.v[i] : i \in DOMAIN value.v}
    ELSE {}

\* The nesting depth of a value: the most messages on a path into it
RECURSIVE NestingDepth(_)
NestingDepth(value) ==
    (IF value.t = "msg" THEN 1 ELSE 0)
        + Max({0} \cup {NestingDepth(child) : child \in Children(value)})

\* The deepest translate call that rendering a value can need: one call per
\* message on a path, and one for the argument-less message that a list
\* formatter (joiner, empty) or a number formatter (format spec, plural) looks up
RECURSIVE CallDepth(_)
CallDepth(value) ==
    IF value.t = "msg"
    THEN 1 + Max({0} \cup {CallDepth(child) : child \in Children(value)})
    ELSE IF value.t \in {"list", "tuple"}
    THEN Max({1} \cup {CallDepth(child) : child \in Children(value)})
    ELSE IF value.t \in {"int", "bool", "float"} THEN 1
    ELSE 0

\* C20: a translate of a request whose arguments are finitely nested returns
\* text or raises the translation error, after finitely many translate calls
\* none of which is deeper than the nesting of the arguments allows (at most
\* one call deeper than the nesting depth); nothing limits the depth: a
\* request rendered in full by patterns that render their arguments reaches
\* the depth of its nesting.
C20_DepthBoundedByNesting ==
    last.op = "translate" =>
        /\ last.ok \/ last.err.kind = "I18nException"
        /\ last.ok => last.val.t = "str"
        /\ Len(last.log) >= 1
        /\ \A i \in 1..Len(last.log) :
              /\ 1 <= last.log[i].depth
              /\ last.log[i].depth <= CallDepth(last.req)
        /\ CallDepth(last.req) <= NestingDepth(last.req) + 1
        /\ last.ok => \E i \in 1..Len(last.log) : last.log[i].depth >= NestingDepth(last.req)

\* The most deeply nested request has been rendered in full
C20_Witness ==
    /\ last.op = "translate"
    /\ last.req = Nested(MaxDepth)
    /\ last.ok
    /\ \E i \in 1..Len(last.log) : last.log[i].depth = MaxDepth + 1

----------------------------------------------------------------------------
(* C21 *)

\* The value an argument fragment refers to in the request, None when the
\* request has no such argument
Referred(fragment, req) ==
    IF fragment.ref.r = "index"
    THEN IF IsInteger(fragment.ref.index) /\ 0 <= IntOf(fragment.ref.index)
              /\ IntOf(fragment.ref.index) < Len(req.args)
         THEN req.args[IntOf(fragment.ref.index) + 1]
         ELSE None
    ELSE IF fragment.ref.name \in DOMAIN req.kwargs
         THEN req.kwargs[fragment.ref.name]
         ELSE None

\* Every argument fragment of the formatter refers to a string of the request
OnlyStrings(formatter, req) ==
    \A i \in 1..Len(formatter.fragments) :
        formatter.fragments[i].f = "arg" => Referred(formatter.fragments[i], req).t = "str"

\* The texts and the referred strings of the fragments from the i-th on
RECURSIVE Concatenated(_, _, _)
Concatenated(formatter, req, i) ==
    IF i > Len(formatter.fragments) THEN <<>>
    ELSE (IF formatter.fragments[i].f = "text"
          THEN formatter.fragments[i].text.v
          ELSE Referred(formatter.fragments[i], req).v)
            \o Concatenated(formatter, req, i + 1)

\* C21: when every argument fragment of the request's formatter resolves to a
\* string, translate returns the texts and exactly those strings in the
\* order of the fragments, whatever options the fragments carry.
C21_StringIdentity ==
    ( /\ last.op = "translate"
      /\ last.log[1].formatter # None
      /\ OnlyStrings(last.log[1].formatter, last.req) ) =>
        /\ last.ok
        /\ last.val = Str(Concatenated(last.log[1].formatter, last.req, 1))

----------------------------------------------------------------------------
(* C22 *)

\* The request and_list('1', '2', '3') of the three-item list tests
ThreeItems == and_list(<<Item(1), Item(2), Item(3)>>)

----------------------------------------------------------------------------
(* C23 *)

\* C23: in every state reached by registrations of factories and dispatches,
\* the cache holds entries only for types of dispatched values, each entry is
\* the first factory of the list that can handle values of that type, and a
\* dispatch of any value with any options has, with the cache as it is, the
\* outcome that it has when the list is scanned with no cache at all.
C23_CacheTransparent ==
    /\ DOMAIN cache \subseteq {inst.t : inst \in DispatchValues}
    /\ \A inst \in DispatchValues :
          inst.t \in DOMAIN cache =>
              /\ Handlers(delegates, inst) # {}
              /\ cache[inst.t] = Earliest(delegates, Handlers(delegates, inst))
    /\ \A inst \in DispatchValues, options \in DispatchOptions :
          Outcome(create_formatter(Service, Caller(cache), en, inst, options))
            = Outcome(create_formatter(Service, Caller(<<>>), en, inst, options))

\* A factory has been registered after the type of dates got its cache entry
C23_Witness ==
    /\ last.op = "register_factory"
    /\ Len(delegates) = Len(BuiltinDelegates) + 2
    /\ {"date", "datetime", "str"} \subseteq DOMAIN cache
    /\ cache["date"] = delegates[5]

----------------------------------------------------------------------------
(* C24 *)

\* C24: a translate, whether it returns or raises, leaves the catalog as it
\* was, with the same (key, locale) entries and the same formatters and
\* without a new dict for any locale; it leaves the default locale, the
\* missing-text strategy and the list of factories alone; and the dispatch
\* cache keeps every entry it had, so that it changes only by entries for
\* types that had none.
C24_TranslateFrame ==
    [][ last'.op = "translate" =>
          /\ Entries(pattern_cache') = Entries(pattern_cache)
          /\ pattern_cache' = pattern_cache
          /\ default_locale' = default_locale
          /\ missing_text_strategy' = missing_text_strategy
          /\ delegates' = delegates
          /\ \A T \in DOMAIN cache : T \in DOMAIN cache' /\ cache'[T] = cache[T]
      ]_vars

\* A translate of a message nested in a message has failed, at a locale the
\* catalog has no dict for, after the factory of messages got its cache entry
C24_Witness ==
    /\ last.op = "translate"
    /\ last.req = hello(color)
    /\ last.locale = de_DE
    /\ ~last.ok
    /\ DOMAIN cache = {"msg"}
    /\ de_DE \notin DOMAIN pattern_cache
    /\ DOMAIN pattern_cache # {}

====
